---- MODULE Spec2Model ----
(***************************************************************************)
(* A model of watson_graphing.py: the argument normaliser (parse_args),    *)
(* the tag decomposer (striplist, find_location, find_attributes) and the  *)
(* sequential pipeline of graph(): export, derive, aggregate, render.      *)
(*                                                                         *)
(* Python values are modelled as follows.                                  *)
(*   - a str whose characters matter (tags, project names, labels) is a    *)
(*     sequence of one-character strings: "@h" is <<"@", "h">>;            *)
(*   - the command-line tokens of parse_args are TLA+ strings, and '+' on  *)
(*     them is \o;                                                         *)
(*   - a missing cell of the data frame is NaN, find_location's implicit   *)
(*     return value is PyNone; both are one-element sequences holding a    *)
(*     name that is not a character, so no str equals them;                *)
(*   - a value whose Python type is tested (type(lst) == list) is a record *)
(*     with a "type" field;                                                *)
(*   - the result of a call that may raise is [exc, val].                  *)
(* Durations are kept in whole seconds: the code's float hours are         *)
(* seconds / 3600, and sums of hours are compared as sums of seconds.      *)
(***************************************************************************)
EXTENDS Integers, Sequences, FiniteSets, TLC

VARIABLES
    pc,                  \* position in main()/graph(), or in the direct-call harness
    args,                \* the argparse namespace handed to graph()
    watson_args_parsed,  \* parse_args' list under construction, then its result
    tags,                \* direct call: one cell of df['tags']
    tags_list,           \* direct call: the cell after str.split(',') and striplist
    attributes,          \* direct call: result of find_attributes(tags_list)
    location,            \* direct call: result of find_location(tags_list)
    output,              \* the tempfile.TemporaryFile: "none", "open", "closed"
    export,              \* outcome of each subprocess.run call, in order
    csv,                 \* the rows the external process wrote to the file
    df,                  \* the data frame, a sequence of rows
    subplots,            \* the list of panels to build
    fig,                 \* the figures: titles, panels with traces, page 2
    shown,               \* number of fig.show() calls so far
    saved,               \* set of image files written
    error                \* the exception that ended the run, "" if none

vars == <<pc, args, watson_args_parsed, tags, tags_list, attributes, location,
          output, export, csv, df, subplots, fig, shown, saved, error>>

(***************************************************************************)
(* Bounds of the model.                                                    *)
(***************************************************************************)
MaxArgs == 2
MaxTagLen == 5
MaxRecords == 2
\* Resolution of a timestamp: ticks in one second.
TicksPerSecond == 10

(***************************************************************************)
(* Python values.                                                          *)
(***************************************************************************)
NaN == <<"NaN">>
PyNone == <<"PyNone">>
NoneStr == <<"N", "o", "n", "e">>

isna(v) == v = NaN \/ v = PyNone

PyList(items) == [type |-> "list", items |-> items]
NaNCell == [type |-> "float", items |-> <<>>]

Returned(v) == [exc |-> "", val |-> v]
Raised(e) == [exc |-> e, val |-> <<>>]
NotCalled == [exc |-> "not called", val |-> <<>>]

Range(s) == {s[k] : k \in 1..Len(s)}

RECURSIVE SeqsUpTo(_, _)
SeqsUpTo(S, n) ==
    IF n = 0 THEN {<<>>}
    ELSE LET shorter == SeqsUpTo(S, n - 1)
         IN  shorter \cup {Append(s, c) : s \in {t \in shorter : Len(t) = n - 1}, c \in S}

(***************************************************************************)
(* parse_args (lines 19-37).                                               *)
(***************************************************************************)
flag_args ==
    {"c", "current", "C", "no-current", "r", "reverse", "R", "no-reverse",
     "f", "from", "t", "to", "y", "year", "m", "month", "l", "luna",
     "w", "week", "d", "day", "a", "all", "p", "project", "T", "tag",
     "ignore-project", "ignore-tag"}

\* A loop body that prefixes every token, flag or not.
parse_arg_always_prefix(arg) == "--" \o arg

\* The body of the for loop: the element appended for one token.
parse_arg(arg) == IF arg \in flag_args THEN "--" \o arg ELSE arg

\* One iteration of `for arg in args.WATSON_ARGS`.
ParseArgsStep ==
    /\ pc = "parse_args"
    /\ Len(watson_args_parsed) < Len(args.WATSON_ARGS)
    /\ watson_args_parsed' =
           Append(watson_args_parsed,
                  parse_arg(args.WATSON_ARGS[Len(watson_args_parsed) + 1]))
    /\ UNCHANGED <<pc, args, tags, tags_list, attributes, location, output,
                   export, csv, df, subplots, fig, shown, saved, error>>

\* The loop is exhausted: return watson_args_parsed to graph().
ParseArgsReturn ==
    /\ pc = "parse_args"
    /\ Len(watson_args_parsed) = Len(args.WATSON_ARGS)
    /\ pc' = "export"
    /\ UNCHANGED <<args, watson_args_parsed, tags, tags_list, attributes,
                   location, output, export, csv, df, subplots, fig, shown, saved,
                   error>>

(***************************************************************************)
(* The tag decomposer (lines 40-66) and the split of line 99.              *)
(***************************************************************************)
RECURSIVE str_split(_)
\* str.split(','): the pieces between commas; "" splits to [""].
str_split(s) ==
    IF \A k \in 1..Len(s) : s[k] # ","
    THEN <<s>>
    ELSE LET i == CHOOSE k \in 1..Len(s) :
                      s[k] = "," /\ \A j \in 1..(k - 1) : s[j] # ","
         IN  <<SubSeq(s, 1, i - 1)>> \o str_split(SubSeq(s, i + 1, Len(s)))

RECURSIVE lstrip(_)
lstrip(s) == IF s # <<>> /\ Head(s) = " " THEN lstrip(Tail(s)) ELSE s

RECURSIVE rstrip(_)
rstrip(s) ==
    IF s # <<>> /\ s[Len(s)] = " " THEN rstrip(SubSeq(s, 1, Len(s) - 1)) ELSE s

\* str.strip()
strip(s) == rstrip(lstrip(s))

\* df['tags'].str.split(','): a missing cell stays missing.
split_cell(cell) == IF cell = NaN THEN NaNCell ELSE PyList(str_split(cell))

striplist(lst) ==
    IF lst.type = "list"
    THEN PyList([k \in 1..Len(lst.items) |-> strip(lst.items[k])])
    ELSE lst

RECURSIVE find_location_from(_, _)
\* The for loop of find_location from index k on; i[0] of '' raises.
find_location_from(items, k) ==
    IF k > Len(items) THEN Returned(PyNone)
    ELSE IF items[k] = <<>> THEN Raised("IndexError")
    ELSE IF items[k][1] = "@" THEN Returned(items[k])
    ELSE find_location_from(items, k + 1)

\* A find_location that returns the last '@' item instead of the first.
RECURSIVE find_location_last_from(_, _, _)
find_location_last_from(items, k, found) ==
    IF k > Len(items) THEN Returned(found)
    ELSE IF items[k] = <<>> THEN Raised("IndexError")
    ELSE IF items[k][1] = "@" THEN find_location_last_from(items, k + 1, items[k])
    ELSE find_location_last_from(items, k + 1, found)

find_location_last(lst) ==
    IF lst.type = "list" THEN find_location_last_from(lst.items, 1, PyNone)
    ELSE Returned(PyNone)

find_location(lst) ==
    IF lst.type = "list" THEN find_location_from(lst.items, 1)
    ELSE Returned(PyNone)

RECURSIVE find_attributes_from(_, _, _)
\* The for loop of find_attributes from index k on, `acc` collected so far.
find_attributes_from(items, k, acc) ==
    IF k > Len(items) THEN Returned(acc)
    ELSE IF items[k] = <<>> THEN Raised("IndexError")
    ELSE IF items[k][1] # "@"
         THEN find_attributes_from(items, k + 1, Append(acc, items[k]))
         ELSE find_attributes_from(items, k + 1, acc)

find_attributes(lst) ==
    IF lst.type = "list" THEN find_attributes_from(lst.items, 1, <<>>)
    ELSE Returned(<<>>)

(***************************************************************************)
(* The state before main() runs, shared by every specification.            *)
(***************************************************************************)
\* args.plot is the str of the default or the list of nargs='+'; v holds
\* the items of a list, and a str as its only element.
PyStr(v) == [type |-> "str", v |-> <<v>>]
PlotList(items) == [type |-> "list", v |-> items]

\* The argparse defaults of main() (lines 242-272).
DefaultArgs ==
    [plot |-> PyStr("all"), totals |-> FALSE, period |-> "day",
     sort |-> "time", truncate |-> FALSE, date |-> FALSE, save |-> FALSE,
     WATSON_ARGS |-> <<>>]

EmptyFig == [titles |-> <<>>, panels |-> <<>>, rangeslider |-> FALSE, page2 |-> <<>>]

NothingRun ==
    /\ output = "none"
    /\ export = <<>>
    /\ csv = <<>>
    /\ df = <<>>
    /\ subplots = <<>>
    /\ fig = EmptyFig
    /\ shown = 0
    /\ saved = {}
    /\ error = ""

NoDirectCall ==
    /\ tags = NaN
    /\ tags_list = NaNCell
    /\ attributes = NotCalled
    /\ location = NotCalled

(***************************************************************************)
(* parse_args on every token list up to MaxArgs tokens.                    *)
(***************************************************************************)
ArgTokens ==
    {"week", "Week", "w", "W", "T", "2024-01-01", "--week", "ignore-tag"}

InitArgs ==
    /\ pc = "parse_args"
    /\ \E w \in SeqsUpTo(ArgTokens, MaxArgs) :
           args = [DefaultArgs EXCEPT !.WATSON_ARGS = w]
    /\ watson_args_parsed = <<>>
    /\ NoDirectCall
    /\ NothingRun

NextArgs == ParseArgsStep \/ ParseArgsReturn

SpecArgs == InitArgs /\ [][NextArgs]_vars

(***************************************************************************)
(* Direct calls of the tag decomposer on every tag cell up to MaxTagLen    *)
(* characters: the split and strip of line 99, then find_attributes and    *)
(* find_location on the result, each called once, in either order.         *)
(***************************************************************************)
TagChars == {"@", "a", "b", " ", ","}

InitTags ==
    /\ pc = "tags"
    /\ tags \in SeqsUpTo(TagChars, MaxTagLen) \cup {NaN}
    /\ tags_list = NaNCell
    /\ attributes = NotCalled
    /\ location = NotCalled
    /\ args = DefaultArgs
    /\ watson_args_parsed = <<>>
    /\ NothingRun

SplitTags ==
    /\ pc = "tags"
    /\ tags_list' = striplist(split_cell(tags))
    /\ pc' = "tags_list"
    /\ UNCHANGED <<args, watson_args_parsed, tags, attributes, location, output,
                   export, csv, df, subplots, fig, shown, saved, error>>

CallFindAttributes ==
    /\ pc = "tags_list"
    /\ attributes = NotCalled
    /\ attributes' = find_attributes(tags_list)
    /\ UNCHANGED <<pc, args, watson_args_parsed, tags, tags_list, location,
                   output, export, csv, df, subplots, fig, shown, saved, error>>

CallFindLocation ==
    /\ pc = "tags_list"
    /\ location = NotCalled
    /\ location' = find_location(tags_list)
    /\ UNCHANGED <<pc, args, watson_args_parsed, tags, tags_list, attributes,
                   output, export, csv, df, subplots, fig, shown, saved, error>>

NextTags == SplitTags \/ CallFindAttributes \/ CallFindLocation

SpecTags == InitTags /\ [][NextTags]_vars

(***************************************************************************)
(* The data the pipeline of graph() works on.  A timestamp is a number of  *)
(* ticks since 2024-01-01 00:00, a Monday; a date is a number of days      *)
(* since then.  The `time` column holds seconds; the code's hours are      *)
(* time / SecondsPerHour.                                                  *)
(***************************************************************************)
SecondsPerHour == 3600
SecondsPerDay == 86400
DaysPerWeek == 7

At(day, h, m, s, ticks) ==
    (((day * 24 + h) * 60 + m) * 60 + s) * TicksPerSecond + ticks

\* Rows the external process may export: an interval with a '@' tag and an
\* attribute, one with no tags and a fraction of a second over the hour, one of 25
\* hours, one with no project.
RecordPool ==
    {[start |-> At(0, 9, 0, 0, 0), stop |-> At(0, 11, 30, 0, 0),
      project |-> <<"a", ".", "x">>, tags |-> <<"@", "h", ",", " ", "f">>],
     [start |-> At(7, 9, 0, 0, 0), stop |-> At(7, 10, 0, 0, 5),
      project |-> <<"a">>, tags |-> NaN],
     [start |-> At(31, 22, 0, 0, 0), stop |-> At(32, 23, 0, 0, 0),
      project |-> <<"b">>, tags |-> <<"f">>],
     [start |-> At(0, 10, 0, 0, 0), stop |-> At(0, 10, 30, 0, 0),
      project |-> NaN, tags |-> <<"@", "w">>]}

Columns ==
    {"start", "stop", "project", "tags", "time", "date", "tags_list",
     "attributes", "location"}

\* ord() of the characters that occur in labels.
Ord(c) ==
    CASE c = " " -> 32 [] c = "," -> 44 [] c = "." -> 46 [] c = "@" -> 64
      [] c = "N" -> 78 [] c = "a" -> 97 [] c = "b" -> 98 [] c = "e" -> 101
      [] c = "f" -> 102 [] c = "h" -> 104 [] c = "n" -> 110 [] c = "o" -> 111
      [] c = "w" -> 119 [] c = "x" -> 120

RECURSIVE LexLess(_, _)
\* a < b on Python str: by code point, a proper prefix first.
LexLess(a, b) ==
    IF a = <<>> THEN b # <<>>
    ELSE IF b = <<>> THEN FALSE
    ELSE IF Ord(a[1]) # Ord(b[1]) THEN Ord(a[1]) < Ord(b[1])
    ELSE LexLess(Tail(a), Tail(b))

Reverse(s) == [k \in 1..Len(s) |-> s[Len(s) + 1 - k]]

RECURSIVE SortLabels(_)
\* The labels of S in ascending order.
SortLabels(S) ==
    IF S = {} THEN <<>>
    ELSE LET m == CHOOSE x \in S : \A y \in S \ {x} : LexLess(x, y)
         IN  <<m>> \o SortLabels(S \ {m})

RECURSIVE SortDates(_)
SortDates(S) ==
    IF S = {} THEN <<>>
    ELSE LET m == CHOOSE x \in S : \A y \in S : x <= y
         IN  <<m>> \o SortDates(S \ {m})

RECURSIVE SumTime(_)
\* ['time'].sum() over a sequence of rows.
SumTime(rows) == IF rows = <<>> THEN 0 ELSE Head(rows).time + SumTime(Tail(rows))

(***************************************************************************)
(* The field deriver (lines 81-110).                                       *)
(***************************************************************************)
\* Timedelta.dt.seconds: the seconds component, 0 <= seconds < one day;
\* the days and the fraction of a second are other components.
dt_seconds(td) == (td \div TicksPerSecond) % SecondsPerDay

\* df['time'] of one row (line 82), before the division by 3600.
time_of(row) == dt_seconds(row.stop - row.start)

MonthStarts == {0, 31, 60, 91, 121, 152, 182, 213, 244, 274, 305, 335}
QuarterStarts == {0, 91, 182, 274}

LastStart(S, day) == CHOOSE m \in S : m <= day /\ \A n \in S : n <= day => n <= m

\* df['date'] of one row (lines 83-96): the first day of the period.
date_of(period, row) ==
    LET day == row.start \div (SecondsPerDay * TicksPerSecond)
    IN  CASE period = "week" -> day - (day % DaysPerWeek)
          [] period = "month" -> LastStart(MonthStarts, day)
          [] period = "quarter" -> LastStart(QuarterStarts, day)
          [] period = "year" -> LastStart({0}, day)
          [] OTHER -> day

RECURSIVE str_join(_)
\* ', '.join(items)
str_join(items) ==
    IF items = <<>> THEN <<>>
    ELSE IF Len(items) = 1 THEN items[1]
    ELSE items[1] \o <<",", " ">> \o str_join(Tail(items))

\* replace(to_replace=r'\..*', value='', regex=True) on one cell.
truncate_project(p) ==
    IF p = NaN \/ \A k \in 1..Len(p) : p[k] # "." THEN p
    ELSE LET i == CHOOSE k \in 1..Len(p) :
                      p[k] = "." /\ \A j \in 1..(k - 1) : p[j] # "."
         IN  SubSeq(p, 1, i - 1)

derive_row(row, a) ==
    LET tl == striplist(split_cell(row.tags))
    IN  [start |-> row.start,
         stop |-> row.stop,
         project |-> IF a.truncate THEN truncate_project(row.project)
                     ELSE row.project,
         tags |-> row.tags,
         time |-> time_of(row),
         date |-> date_of(a.period, row),
         tags_list |-> tl,
         attributes |-> str_join(find_attributes(tl).val),
         location |-> find_location(tl).val]

\* Lines 81-110 on the whole frame.  The .str accessor of line 99 raises on
\* a column read as all-missing; find_attributes (line 102) raises on the
\* first empty token.
derive(d, a) ==
    IF Len(d) > 0 /\ \A k \in 1..Len(d) : d[k].tags = NaN
    THEN Raised("AttributeError")
    ELSE IF \E k \in 1..Len(d) :
                find_attributes(striplist(split_cell(d[k].tags))).exc # ""
    THEN Raised("IndexError")
    ELSE Returned([k \in 1..Len(d) |-> derive_row(d[k], a)])

(***************************************************************************)
(* The aggregator (lines 141-183, 229).                                    *)
(***************************************************************************)
\* df.fillna(value='None') with nothing replaced.
fillna_nothing(d) == d

\* df.fillna(value='None', inplace=True): every missing cell becomes the
\* str 'None'.  The attributes column holds '' for a row without
\* attributes, which is not missing.
fillna(d) ==
    [k \in 1..Len(d) |->
        [d[k] EXCEPT
            !.project = IF isna(@) THEN NoneStr ELSE @,
            !.tags = IF isna(@) THEN NoneStr ELSE @,
            !.location = IF isna(@) THEN NoneStr ELSE @,
            !.tags_list = IF @.type = "float"
                          THEN [type |-> "str", items |-> NoneStr] ELSE @]]

\* d[d[col] == label]
rows_with(d, col, label) == SelectSeq(d, LAMBDA r : r[col] = label)

\* d.groupby('date').sum(): per date in ascending order, the summed time.
groupby_date_sum(d) ==
    LET order == SortDates({d[k].date : k \in 1..Len(d)})
    IN  [i \in 1..Len(order) |->
            [key |-> order[i],
             time |-> SumTime(SelectSeq(d, LAMBDA r : r.date = order[i]))]]

\* d.groupby(col).sum() for a column of labels: per label in ascending
\* order, the summed time; rows whose label is missing are left out.
groupby_label_sum(d, col) ==
    LET order == SortLabels({d[k][col] : k \in 1..Len(d)} \ {NaN, PyNone})
    IN  [i \in 1..Len(order) |->
            [key |-> order[i], time |-> SumTime(rows_with(d, col, order[i]))]]

RECURSIVE sort_values_by_time(_)
\* sort_values(by='time'): ascending, equal times keep their order (the
\* sort is an insertion sort on frames this small).
sort_values_by_time(groups) ==
    IF groups = <<>> THEN <<>>
    ELSE LET n == Len(groups)
             g == groups[n]
             sorted == sort_values_by_time(SubSeq(groups, 1, n - 1))
             pos == Cardinality({k \in 1..(n - 1) : sorted[k].time <= g.time})
         IN  SubSeq(sorted, 1, pos) \o <<g>> \o SubSeq(sorted, pos + 1, n - 1)

index_values(groups) == [i \in 1..Len(groups) |-> groups[i].key]

\* The sorted index without the [::-1] of lines 165 and 168.
df_type_sorted_unreversed(d, plot, sort) ==
    IF sort = "time"
    THEN index_values(sort_values_by_time(groupby_label_sum(d, plot)))
    ELSE index_values(groupby_label_sum(d, plot))

\* df_type_sorted (lines 163-168): the labels of the panel in drawing order.
df_type_sorted(d, plot, sort) ==
    IF sort = "time"
    THEN Reverse(index_values(sort_values_by_time(groupby_label_sum(d, plot))))
    ELSE Reverse(index_values(groupby_label_sum(d, plot)))

\* The go.Bar of one label (lines 174-181).
bar_trace(d, plot, label) ==
    LET df_group == groupby_date_sum(rows_with(d, plot, label))
    IN  [name |-> label, kind |-> "bar", x |-> index_values(df_group),
         y |-> [i \in 1..Len(df_group) |-> df_group[i].time]]

\* The go.Scatter of the hours panel (lines 143-151).
hours_trace(d) ==
    LET df_groupby_date == groupby_date_sum(d)
    IN  [name |-> <<"h", "o", "u", "r", "s">>, kind |-> "lines+markers",
         x |-> index_values(df_groupby_date),
         y |-> [i \in 1..Len(df_groupby_date) |-> df_groupby_date[i].time]]

RECURSIVE sort_values_by_time_descending(_)
\* sort_values(by='time', ascending=False), equal times keeping their order.
sort_values_by_time_descending(groups) ==
    IF groups = <<>> THEN <<>>
    ELSE LET n == Len(groups)
             g == groups[n]
             sorted == sort_values_by_time_descending(SubSeq(groups, 1, n - 1))
             pos == Cardinality({k \in 1..(n - 1) : sorted[k].time >= g.time})
         IN  SubSeq(sorted, 1, pos) \o <<g>> \o SubSeq(sorted, pos + 1, n - 1)

\* by_project (line 229): the sort by name, then the sort by time.
by_project(d) == sort_values_by_time_descending(groupby_label_sum(d, "project"))

(***************************************************************************)
(* graph() (lines 69-233), one action per step.  A raised exception ends   *)
(* the run: pc = "raised" and error names it.                              *)
(***************************************************************************)
PlotLists ==
    {<<"all">>, <<"hours">>, <<"project">>, <<"attributes">>, <<"location">>,
     <<"location", "hours">>, <<"project", "attributes">>}

\* What main() can hand to graph(): --plot omitted or given, every
\* combination of the other options.
ArgsInputs ==
    [plot : {PyStr("all")} \cup {PlotList(p) : p \in PlotLists},
     totals : BOOLEAN,
     period : {"day", "week", "month", "quarter", "year"},
     sort : {"time", "name"},
     truncate : BOOLEAN,
     date : BOOLEAN,
     save : BOOLEAN,
     WATSON_ARGS : {<<"week">>}]

Init ==
    /\ pc = "parse_args"
    /\ args \in ArgsInputs
    /\ watson_args_parsed = <<>>
    /\ NoDirectCall
    /\ NothingRun

\* Lines 75-77 with a failure of subprocess.run ignored (check=False).
ExportFailsUnchecked ==
    /\ pc = "export"
    /\ \E e \in {"CalledProcessError"} : export' = Append(export, e)
    /\ output' = "open"
    /\ pc' = "read_csv"
    /\ UNCHANGED <<args, watson_args_parsed, tags, tags_list, attributes,
                   location, csv, df, subplots, fig, shown, saved, error>>

\* Lines 75-77 when subprocess.run raises: the watson binary is missing, or
\* it exits non-zero under check=True.  Leaving the with block closes the
\* temporary file and the exception ends the run.
ExportFails ==
    /\ pc = "export"
    /\ \E e \in {"FileNotFoundError", "CalledProcessError"} :
           /\ export' = Append(export, e)
           /\ error' = e
    /\ output' = "closed"
    /\ pc' = "raised"
    /\ UNCHANGED <<args, watson_args_parsed, tags, tags_list, attributes,
                   location, csv, df, subplots, fig, shown, saved>>

\* Lines 75-77 when watson exits with status 0, having written its rows.
ExportOk ==
    /\ pc = "export"
    /\ csv' \in SeqsUpTo(RecordPool, MaxRecords)
    /\ export' = Append(export, "ok")
    /\ output' = "open"
    /\ pc' = "read_csv"
    /\ UNCHANGED <<args, watson_args_parsed, tags, tags_list, attributes,
                   location, df, subplots, fig, shown, saved, error>>

\* Lines 78-79, and the end of the with block.
ReadCsv ==
    /\ pc = "read_csv"
    /\ df' = csv
    /\ output' = "closed"
    /\ pc' = "derive"
    /\ UNCHANGED <<args, watson_args_parsed, tags, tags_list, attributes,
                   location, export, csv, subplots, fig, shown, saved, error>>

\* Lines 81-110.
Derive ==
    /\ pc = "derive"
    /\ LET r == derive(df, args)
       IN  IF r.exc = ""
           THEN df' = r.val /\ pc' = "figure" /\ error' = error
           ELSE df' = df /\ pc' = "raised" /\ error' = r.exc
    /\ UNCHANGED <<args, watson_args_parsed, tags, tags_list, attributes,
                   location, output, export, csv, subplots, fig, shown, saved>>

\* Line 82 on a frame without rows whose start and stop columns were not
\* read as timestamps: the .dt accessor raises.  Whether an empty column
\* is read as timestamps is the CSV reader's choice.
DeriveEmptyRaises ==
    /\ pc = "derive"
    /\ Len(df) = 0
    /\ pc' = "raised"
    /\ error' = "AttributeError"
    /\ UNCHANGED <<args, watson_args_parsed, tags, tags_list, attributes,
                   location, output, export, csv, df, subplots, fig, shown,
                   saved>>

\* The list of panels of lines 112-116: args.plot == 'all' holds of the
\* str 'all' only, never of a list.
select_subplots(plot) ==
    IF plot.type = "str" /\ plot.v = <<"all">>
    THEN <<"hours", "project", "attributes", "location">>
    ELSE plot.v

\* Lines 112-136: the panels, their titles, make_subplots.  min() and max()
\* of line 120 raise on an empty column.
BuildFigure ==
    /\ pc = "figure"
    /\ subplots' = select_subplots(args.plot)
    /\ IF args.date /\ Len(df) = 0
       THEN /\ pc' = "raised"
            /\ error' = "ValueError"
            /\ fig' = fig
       ELSE /\ pc' = "panels"
            /\ error' = error
            /\ fig' = [fig EXCEPT !.titles =
                   [k \in 1..Len(subplots') |->
                       [plot |-> subplots'[k],
                        date_range |->
                            IF args.date
                            THEN LET dates == SortDates({df[j].date : j \in 1..Len(df)})
                                 IN  <<dates[1], dates[Len(dates)]>>
                            ELSE <<>>]]]
    /\ UNCHANGED <<args, watson_args_parsed, tags, tags_list, attributes,
                   location, output, export, csv, df, shown, saved>>

\* The panel the loop of line 139 is at.
NextPlot == subplots[Len(fig.panels) + 1]

\* Lines 141-157: the hours panel.  max() of line 156 raises on a frame
\* without rows, after the trace was added.
PanelHours ==
    /\ pc = "panels"
    /\ Len(fig.panels) < Len(subplots)
    /\ NextPlot = "hours"
    /\ LET trace == hours_trace(df)
       IN  IF Len(df) = 0
           THEN /\ fig' = [fig EXCEPT !.panels =
                       Append(@, [plot |-> "hours", traces |-> <<trace>>,
                                  range |-> <<>>])]
                /\ pc' = "raised"
                /\ error' = "ValueError"
           ELSE /\ fig' = [fig EXCEPT !.panels =
                       Append(@, [plot |-> "hours", traces |-> <<trace>>,
                                  range |-> <<0, (trace.y[CHOOSE i \in 1..Len(trace.y) :
                                                     \A j \in 1..Len(trace.y) :
                                                         trace.y[j] <= trace.y[i]]
                                                  + SecondsPerHour - 1)
                                                 \div SecondsPerHour>>])]
                /\ pc' = pc
                /\ error' = error
    /\ UNCHANGED <<args, watson_args_parsed, tags, tags_list, attributes,
                   location, output, export, csv, df, subplots, shown, saved>>

\* Lines 158-183: a panel of stacked bars.  groupby raises KeyError when
\* the frame has no column of that name.
PanelDimension ==
    /\ pc = "panels"
    /\ Len(fig.panels) < Len(subplots)
    /\ NextPlot # "hours"
    /\ df' = fillna(df)
    /\ IF NextPlot \notin Columns
       THEN /\ pc' = "raised"
            /\ error' = "KeyError"
            /\ fig' = fig
       ELSE /\ pc' = pc
            /\ error' = error
            /\ LET labels == df_type_sorted(df', NextPlot, args.sort)
               IN  fig' = [fig EXCEPT !.panels =
                       Append(@, [plot |-> NextPlot,
                                  traces |-> [i \in 1..Len(labels) |->
                                                 bar_trace(df', NextPlot, labels[i])],
                                  range |-> <<>>])]
    /\ UNCHANGED <<args, watson_args_parsed, tags, tags_list, attributes,
                   location, output, export, csv, subplots, shown, saved>>

\* Lines 185-224: the layout, the slider for a single panel, fig.show(),
\* and the first image file under --save.
ShowPage1 ==
    /\ pc = "panels"
    /\ Len(fig.panels) = Len(subplots)
    /\ fig' = [fig EXCEPT !.rangeslider = (Len(subplots) = 1)]
    /\ shown' = shown + 1
    /\ saved' = IF args.save THEN saved \cup {"watson_graphing_1.png"} ELSE saved
    /\ pc' = "totals"
    /\ UNCHANGED <<args, watson_args_parsed, tags, tags_list, attributes,
                   location, output, export, csv, df, subplots, error>>

\* Lines 227-233 under --totals: page 2, shown and saved.
TotalsPage ==
    /\ pc = "totals"
    /\ args.totals
    /\ fig' = [fig EXCEPT !.page2 = by_project(df)]
    /\ shown' = shown + 1
    /\ saved' = IF args.save THEN saved \cup {"watson_graphing_2.png"} ELSE saved
    /\ pc' = "done"
    /\ UNCHANGED <<args, watson_args_parsed, tags, tags_list, attributes,
                   location, output, export, csv, df, subplots, error>>

\* graph() returns without a second page.
Return ==
    /\ pc = "totals"
    /\ ~args.totals
    /\ pc' = "done"
    /\ UNCHANGED <<args, watson_args_parsed, tags, tags_list, attributes,
                   location, output, export, csv, df, subplots, fig, shown,
                   saved, error>>

Next ==
    \/ ParseArgsStep
    \/ ParseArgsReturn
    \/ ExportOk
    \/ ExportFails
    \/ ReadCsv
    \/ Derive
    \/ DeriveEmptyRaises
    \/ BuildFigure
    \/ PanelHours
    \/ PanelDimension
    \/ ShowPage1
    \/ TotalsPage
    \/ Return

Spec == Init /\ [][Next]_vars

(***************************************************************************)
(* Properties of parse_args, checked under SpecArgs.                       *)
(***************************************************************************)
\* What each token of ArgTokens must become, written out by hand.
ExpectedToken ==
    [t \in ArgTokens |->
        CASE t = "week" -> "--week"
          [] t = "w" -> "--w"
          [] t = "T" -> "--T"
          [] t = "ignore-tag" -> "--ignore-tag"
          [] OTHER -> t]

\* C8: parse_args keeps length and order; position by position the output
\* is '--' + token when the token is exactly a member of flag_args and the
\* token itself otherwise (week -> --week, 2024-01-01 unchanged, Week and W
\* unchanged); it never fails.
C8_ParseArgsTokenwise ==
    /\ error = ""
    /\ Len(watson_args_parsed) <= Len(args.WATSON_ARGS)
    /\ pc # "parse_args" => Len(watson_args_parsed) = Len(args.WATSON_ARGS)
    /\ \A i \in 1..Len(watson_args_parsed) :
           LET arg == args.WATSON_ARGS[i]
               out == watson_args_parsed[i]
           IN  /\ arg \in flag_args => out = "--" \o arg
               /\ arg \notin flag_args => out = arg
               /\ out = ExpectedToken[arg]

C8_Witness ==
    /\ pc = "export"
    /\ args.WATSON_ARGS = <<"week", "2024-01-01">>
    /\ watson_args_parsed = <<"--week", "2024-01-01">>

(***************************************************************************)
(* Properties of the tag decomposer, checked under SpecTags.               *)
(***************************************************************************)
\* The trimmed tokens of the cell, as a set (none for a missing cell).
Tokens == IF tags_list.type = "list" THEN Range(tags_list.items) ELSE {}

AtTokens == {t \in Tokens : t # <<>> /\ t[1] = "@"}

BothReturned == pc = "tags_list" /\ attributes.exc = "" /\ location.exc = ""

\* find_attributes(tags_list) united with {find_location(tags_list)}.
Reconstructed ==
    Range(attributes.val)
        \cup (IF location.val = PyNone THEN {} ELSE {location.val})

\* The '@' token at the smallest index of tags_list.
FirstAtToken ==
    LET items == tags_list.items
        k == CHOOSE j \in 1..Len(items) :
                 /\ items[j] \in AtTokens
                 /\ \A h \in 1..(j - 1) : items[h] \notin AtTokens
    IN  items[k]

\* C1 as stated: whenever both functions return, attributes and location
\* together are exactly the trimmed tokens.
C1_Original == BothReturned => Reconstructed = Tokens

\* C1 amended: find_attributes raises IndexError exactly when some trimmed
\* token is empty; otherwise both functions return and together they are
\* the tokens not beginning with '@' plus the first token beginning with
\* '@', so they are all the tokens exactly when at most one distinct token
\* begins with '@'.
C1_FirstLocationOnly ==
    /\ (pc = "tags_list" /\ attributes # NotCalled) =>
           (attributes.exc = "IndexError" <=> <<>> \in Tokens)
    /\ (pc = "tags_list" /\ location # NotCalled /\ <<>> \notin Tokens) =>
           location.exc = ""
    /\ BothReturned =>
           /\ Reconstructed =
                  (Tokens \ AtTokens)
                      \cup (IF AtTokens = {} THEN {} ELSE {FirstAtToken})
           /\ Reconstructed = Tokens <=> Cardinality(AtTokens) <= 1

C1_Witness ==
    /\ BothReturned
    /\ Cardinality(AtTokens) >= 2
    /\ Reconstructed # Tokens

\* C10: neither function raises, whatever the tokens, and an empty token is
\* never returned as the location.
C10_NeverRaises ==
    /\ attributes.exc # "IndexError"
    /\ location.exc # "IndexError"
    /\ location.exc = "" => location.val # <<>>

(***************************************************************************)
(* Properties of the pipeline, checked under Spec.                         *)
(***************************************************************************)
ExportSucceeded == export = <<"ok">>

\* The derived columns exist: lines 81-110 have run without raising.
Derived ==
    \/ pc \in {"figure", "panels", "totals", "done"}
    \/ pc = "raised" /\ subplots # <<>>

Dimensions == {"project", "attributes", "location"}

\* C2: the derived duration of every row is the whole interval in seconds,
\* fractions of a second dropped (in hours: that number / 3600), intervals
\* of a day or more included.
C2_DurationIsTotalSeconds ==
    Derived =>
        \A k \in 1..Len(df) :
            df[k].time = (csv[k].stop - csv[k].start) \div TicksPerSecond

\* The rows of a bucket, and their summed duration.
BucketTotal(d) == SumTime(SelectSeq(df, LAMBDA r : r.date = d))

\* What a trace draws at bucket d.
DrawnAt(trace, d) ==
    IF \E i \in 1..Len(trace.x) : trace.x[i] = d
    THEN trace.y[CHOOSE i \in 1..Len(trace.x) : trace.x[i] = d]
    ELSE 0

RECURSIVE StackedAt(_, _)
\* The height of the stack of a panel's traces at bucket d.
StackedAt(traces, d) ==
    IF traces = <<>> THEN 0
    ELSE DrawnAt(Head(traces), d) + StackedAt(Tail(traces), d)

\* C3: in every panel built, for every bucket-date, the durations drawn for
\* the bucket sum to the summed duration of all rows of that bucket, rows
\* grouped under 'None' included; so the stack of a non-hours panel equals
\* the value of the hours series.
C3_PanelSumsToBucketTotal ==
    \A p \in 1..Len(fig.panels) :
        \A d \in {df[k].date : k \in 1..Len(df)} :
            /\ StackedAt(fig.panels[p].traces, d) = BucketTotal(d)
            /\ \A q \in 1..Len(fig.panels) :
                   StackedAt(fig.panels[p].traces, d)
                       = StackedAt(fig.panels[q].traces, d)

C3_Witness ==
    /\ Len(fig.panels) = 2
    /\ fig.panels[1].plot = "location"
    /\ fig.panels[2].plot = "hours"
    /\ Len(fig.panels[1].traces) = 2
    /\ \E i \in 1..2 : fig.panels[1].traces[i].name = NoneStr
    /\ \E d \in {df[k].date : k \in 1..Len(df)} :
           /\ \A i \in 1..2 : DrawnAt(fig.panels[1].traces[i], d) > 0
           /\ DrawnAt(fig.panels[2].traces[1], d) = BucketTotal(d)

TraceNames(panel) == [i \in 1..Len(panel.traces) |-> panel.traces[i].name]

LabelTotal(plot, label) == SumTime(SelectSeq(df, LAMBDA r : r[plot] = label))

\* C4: the traces of every non-hours panel name each distinct value of the
\* dimension exactly once, in non-increasing order of summed duration
\* under --sort time and in strictly decreasing lexicographic order under
\* --sort name.
C4_PanelLabelsSorted ==
    \A p \in 1..Len(fig.panels) :
        LET panel == fig.panels[p]
            names == TraceNames(panel)
        IN  panel.plot \in Dimensions =>
                /\ Range(names) = {df[k][panel.plot] : k \in 1..Len(df)}
                /\ \A i, j \in 1..Len(names) : i < j => names[i] # names[j]
                /\ args.sort = "time" =>
                       \A i, j \in 1..Len(names) :
                           i < j => LabelTotal(panel.plot, names[i])
                                        >= LabelTotal(panel.plot, names[j])
                /\ args.sort = "name" =>
                       \A i, j \in 1..Len(names) :
                           i < j => LexLess(names[j], names[i])

C4_Witness ==
    /\ args.sort = "time"
    /\ \E p \in 1..Len(fig.panels) :
           LET panel == fig.panels[p]
               names == TraceNames(panel)
           IN  /\ panel.plot \in Dimensions
               /\ Len(names) = 2
               /\ LabelTotal(panel.plot, names[1]) > LabelTotal(panel.plot, names[2])
               /\ LexLess(names[1], names[2])

\* C5: the panels are the requested dimensions in the order requested, and
\* are hours, project, attributes, location whenever 'all' is selected, by
\* default or by --plot all; no panel is built for 'all'.
C5_PanelsAsRequested ==
    subplots # <<>> =>
        /\ "all" \notin Range(subplots)
        /\ subplots = IF args.plot.v = <<"all">>
                      THEN <<"hours", "project", "attributes", "location">>
                      ELSE args.plot.v

\* C6: when the export succeeds with zero rows the run is not ended by an
\* error of min() or max() on the empty frame (lines 120 and 156): it goes
\* on to show empty charts.
C6_EmptyExportShowsCharts ==
    (ExportSucceeded /\ csv = <<>>) => error # "ValueError"

\* C7: subprocess.run is called at most once; when it fails the run ends
\* there with that exception: nothing is parsed, derived or aggregated, no
\* figure is shown, no image is written and the temporary file is closed;
\* nothing is shown or written except after a successful export; the
\* temporary file is closed once the with block is left.
C7_FailedExportAborts ==
    /\ Len(export) <= 1
    /\ (export # <<>> /\ export[1] # "ok") =>
           /\ pc = "raised"
           /\ error = export[1]
           /\ output = "closed"
           /\ df = <<>> /\ subplots = <<>> /\ fig = EmptyFig
           /\ shown = 0 /\ saved = {}
    /\ (shown > 0 \/ saved # {}) => ExportSucceeded
    /\ pc \notin {"parse_args", "export", "read_csv"} => output = "closed"

C7_Witness ==
    /\ export = <<"CalledProcessError">>
    /\ pc = "raised"
    /\ args.save /\ args.totals
    /\ output = "closed"

\* The row of the export has no value for the dimension.
HasNoValue(row, plot) ==
    LET tl == striplist(split_cell(row.tags))
    IN  CASE plot = "project" -> row.project = NaN
          [] plot = "attributes" -> find_attributes(tl).val = <<>>
          [] plot = "location" -> find_location(tl).val = PyNone

\* C9: once a panel of a dimension is aggregated, every row that has no
\* value for that dimension is grouped under the str 'None'.
C9_NoValueGroupedAsNone ==
    \A p \in 1..Len(fig.panels) :
        fig.panels[p].plot \in Dimensions =>
            \A k \in 1..Len(df) :
                HasNoValue(csv[k], fig.panels[p].plot) =>
                    df[k][fig.panels[p].plot] = NoneStr

====
